---- MODULE Spec2Model ----
(***************************************************************************)
(* A model of the FPL draft helper: LiveDraftTool (src/live_draft.py) and  *)
(* FPLPlayerAnalyzer (src/fpl_analyzer.py).                                *)
(*                                                                         *)
(* One behaviour is the life of one object.  driver says which:            *)
(*   "cli"      main() of live_draft.py: LiveDraftTool() followed by       *)
(*              run_interactive_mode() (setup, then the command loop);     *)
(*   "api"      a LiveDraftTool whose public methods are called directly;  *)
(*   "analyzer" an FPLPlayerAnalyzer whose public methods are called.      *)
(* Spec follows the objects whose methods are called directly, SpecCli the *)
(* interactive tool, SpecTurn the interactive tool over many picks.        *)
(* The analysis file the tool loads is the one pre_draft.py writes: its    *)
(* tables are the output of generate_position_rankings (src/pre_draft.py). *)
(* SpecQueries follows the methods that compute a result without changing  *)
(* the object (scoring, comparison, value picks), PreDraftAnalyzer         *)
(* (src/pre_draft.py) included, on inputs of every shape.                  *)
(* SpecRoster follows add_to_your_roster over every order of additions.    *)
(* SpecTurnLive is SpecTurn with the command loop never left idle.         *)
(* Scores are exact numbers here; the floating-point rounding of the       *)
(* Python arithmetic is not modelled.                                      *)
(***************************************************************************)
EXTENDS Integers, Sequences, FiniteSets, TLC

VARIABLES
    driver,          \* which program drives the object (see above)
    pc,              \* position of run_interactive_mode: setup/prompt/input/done; "api" otherwise
    your_position,   \* LiveDraftTool.your_position
    total_teams,     \* LiveDraftTool.total_teams
    taken_players,   \* LiveDraftTool.taken_players (a list)
    your_roster,     \* LiveDraftTool.your_roster: position -> list of names
    players_data,    \* LiveDraftTool.players_data: position -> table (list of rows)
    draft_info,      \* outcome of the calculate_current_pick call made at the prompt
    output,          \* outcome of the last method call / command (what it returned or signalled)
    analyzer_taken_players,  \* FPLPlayerAnalyzer.taken_players (a list)
    sample_data,     \* the table FPLPlayerAnalyzer.load_sample_data returns
    pre_draft_players_data   \* PreDraftAnalyzer.players_data (a table: list of rows)

vars == <<driver, pc, your_position, total_teams, taken_players, your_roster,
          players_data, draft_info, output, analyzer_taken_players, sample_data,
          pre_draft_players_data>>

analyzer_vars == <<analyzer_taken_players, sample_data>>

-----------------------------------------------------------------------------
(* Bounds of the model *)

\* largest number of teams / draft slot typed at setup in the turn specification
MaxTeams == 12
\* number of picks followed in the turn specification
MaxPicks == 24
\* longest taken list followed in the session specification
MaxTaken == 2
\* rows per table of an analysis file, and of a table given to the analyzer
MaxRows == 2
\* largest num_suggestions passed by an API caller
MaxN == 2
\* players in the pool pre_draft.py has fetched
MaxPool == 3
\* forwards in a fetched pool of forwards only
MaxSquad == 8
\* longest bench followed in the roster specification
MaxBench == 7

-----------------------------------------------------------------------------
(* Generic helpers *)

Range(s) == {s[i] : i \in 1..Len(s)}

Min(a, b) == IF a <= b THEN a ELSE b

Max(a, b) == IF a >= b THEN a ELSE b

\* Python's a // b for b # 0 (floor division, also for a negative divisor)
PyFloorDiv(a, b) == IF b > 0 THEN a \div b ELSE (0 - a) \div (0 - b)

\* Python's a % b for b # 0 (the result has the sign of the divisor)
PyMod(a, b) == a - b * PyFloorDiv(a, b)

-----------------------------------------------------------------------------
(* Strings: the conversions the command loop applies *)

\* str.lower() on the names that occur in the model
Lower(s) ==
    CASE s = "Erling Haaland" -> "erling haaland"
      [] s = "Mohamed Salah" -> "mohamed salah"
      [] s = "Harry Kane" -> "harry kane"
      [] s = "Darwin Núñez" -> "darwin núñez"
      [] s = "Alexander Isak" -> "alexander isak"
      [] s = "Bruno Fernandes" -> "bruno fernandes"
      [] s = "Kevin De Bruyne" -> "kevin de bruyne"
      [] s = "Bukayo Saka" -> "bukayo saka"
      [] s = "Cole Palmer" -> "cole palmer"
      [] s = "Phil Foden" -> "phil foden"
      [] s = "Virgil van Dijk" -> "virgil van dijk"
      [] s = "William Saliba" -> "william saliba"
      [] s = "Ruben Dias" -> "ruben dias"
      [] s = "Gabriel" -> "gabriel"
      [] s = "Trent Alexander-Arnold" -> "trent alexander-arnold"
      [] s = "Alisson" -> "alisson"
      [] s = "Ederson" -> "ederson"
      [] s = "Aaron Ramsdale" -> "aaron ramsdale"
      [] s = "Jordan Pickford" -> "jordan pickford"
      [] s = "Nick Pope" -> "nick pope"
      [] s = "Kane" -> "kane"
      [] OTHER -> s

\* str.upper() on the position words a lower-cased command can carry
Upper(s) ==
    CASE s = "fw" -> "FW"
      [] s = "mf" -> "MF"
      [] s = "df" -> "DF"
      [] s = "gk" -> "GK"
      [] s = "bench" -> "BENCH"
      [] s = "xx" -> "XX"
      [] OTHER -> s

\* lower-case term occurs inside lower-case name (the substrings the model uses)
IsSubstring(term, name) ==
    \/ term = name
    \/ term = "kane" /\ name = "harry kane"
    \/ term = "pope" /\ name = "nick pope"

\* pandas str.contains(term, case=False): case-insensitive substring match
StrContains(name, term) == IsSubstring(Lower(term), Lower(name))

-----------------------------------------------------------------------------
(* LiveDraftTool: construction *)

Positions == <<"FW", "MF", "DF", "GK">>

roster_requirements == [FW |-> 2, MF |-> 5, DF |-> 3, GK |-> 1, BENCH |-> 6]

EmptyRoster == [FW |-> <<>>, MF |-> <<>>, DF |-> <<>>, GK |-> <<>>, BENCH |-> <<>>]

Row(n, s) == [name |-> n, fpl_score |-> s]

\* the tables used when no analysis file is found (name and fpl_score columns)
create_sample_data ==
    [FW |-> <<Row("Erling Haaland", 285), Row("Mohamed Salah", 275),
              Row("Harry Kane", 265), Row("Darwin Núñez", 220),
              Row("Alexander Isak", 210)>>,
     MF |-> <<Row("Bruno Fernandes", 255), Row("Kevin De Bruyne", 250),
              Row("Bukayo Saka", 240), Row("Cole Palmer", 220),
              Row("Phil Foden", 215)>>,
     DF |-> <<Row("Virgil van Dijk", 180), Row("William Saliba", 175),
              Row("Ruben Dias", 170), Row("Gabriel", 165),
              Row("Trent Alexander-Arnold", 160)>>,
     GK |-> <<Row("Alisson", 140), Row("Ederson", 135),
              Row("Aaron Ramsdale", 125), Row("Jordan Pickford", 120),
              Row("Nick Pope", 115)>>]

\* names and rows of the players of one position in the pool of pre_draft.py
FileNames == {"Harry Kane", "nick pope"}

FileRows == {Row(n, s) : n \in FileNames, s \in 1..2}

\* the players of one position that pre_draft.py has fetched, in any order
PoolTables == UNION {[1..k -> FileRows] : k \in 1..MaxRows}

\* top_n of generate_position_rankings
TopN == 25

\* the place of row i when t is put in descending order of fpl_score, rows of
\* equal score keeping their order (pandas nlargest, keep='first')
RowRank(t, i) ==
    1 + Cardinality({j \in 1..Len(t) : t[i].fpl_score < t[j].fpl_score})
      + Cardinality({j \in 1..(i - 1) : t[i].fpl_score = t[j].fpl_score})

\* pre_draft.py, generate_position_rankings: pos_data.nlargest(top_n, 'fpl_score'),
\* the table save_analysis writes for a position
generate_position_rankings(pos_data, top_n) ==
    IF top_n <= 0 THEN <<>>
    ELSE SubSeq([k \in 1..Len(pos_data) |->
                    pos_data[CHOOSE i \in 1..Len(pos_data) : RowRank(pos_data, i) = k]],
                1, Min(top_n, Len(pos_data)))

\* the tables an analysis file may hold for a position
FileTables == {generate_position_rankings(t, TopN) : t \in PoolTables}

\* 'top_players_by_position' of the latest analysis file: one table per position
\* present in the file, rows in the file's order (here: no position, or forwards)
AnalysisFiles == {[p \in {} |-> <<>>]} \cup {[p \in {"FW"} |-> t] : t \in FileTables}

\* what load_analysis_data leaves in players_data
load_analysis_data == AnalysisFiles \cup {create_sample_data}

-----------------------------------------------------------------------------
(* LiveDraftTool.calculate_current_pick *)

CurrentRound(total_picks_made, teams) == PyFloorDiv(total_picks_made, teams) + 1

PickInRound(total_picks_made, teams) == PyMod(total_picks_made, teams) + 1

CurrentPickerStraight(total_picks_made, teams) == PickInRound(total_picks_made, teams)

CurrentPickerSawtooth(total_picks_made, teams) ==
    IF PyMod(CurrentRound(total_picks_made, teams), 2) = 1
    THEN PickInRound(total_picks_made, teams)
    ELSE PyMod(teams - PickInRound(total_picks_made, teams) + 1, teams) + 1

CurrentPicker(total_picks_made, teams) ==
    IF PyMod(CurrentRound(total_picks_made, teams), 2) = 1
    THEN PickInRound(total_picks_made, teams)
    ELSE teams - PickInRound(total_picks_made, teams) + 1

PicksUntilYoursOffByOne(total_picks_made, teams, position) ==
    LET current_round == CurrentRound(total_picks_made, teams)
        pick_in_round == PickInRound(total_picks_made, teams)
        current_picker == CurrentPicker(total_picks_made, teams)
    IN  IF current_picker <= position /\ PyMod(current_round, 2) = 1
        THEN position - current_picker
        ELSE IF current_picker >= position /\ PyMod(current_round, 2) = 0
        THEN current_picker - position
        ELSE LET remaining_picks_this_round == teams - pick_in_round + 1
                 next_round_position ==
                     IF PyMod(current_round, 2) = 1
                     THEN teams - position + 1
                     ELSE position
             IN  remaining_picks_this_round + next_round_position

PicksUntilYoursSameDirection(total_picks_made, teams, position) ==
    LET current_round == CurrentRound(total_picks_made, teams)
        pick_in_round == PickInRound(total_picks_made, teams)
        current_picker == CurrentPicker(total_picks_made, teams)
    IN  IF current_picker <= position /\ PyMod(current_round, 2) = 1
        THEN position - current_picker
        ELSE IF current_picker >= position /\ PyMod(current_round, 2) = 0
        THEN current_picker - position
        ELSE LET remaining_picks_this_round == teams - pick_in_round + 1
                 next_round_position ==
                     IF PyMod(current_round, 2) = 1
                     THEN position
                     ELSE teams - position + 1
             IN  remaining_picks_this_round + next_round_position - 1

PicksUntilYoursStrict(total_picks_made, teams, position) ==
    LET current_round == CurrentRound(total_picks_made, teams)
        pick_in_round == PickInRound(total_picks_made, teams)
        current_picker == CurrentPicker(total_picks_made, teams)
    IN  IF current_picker < position /\ PyMod(current_round, 2) = 1
        THEN position - current_picker
        ELSE IF current_picker > position /\ PyMod(current_round, 2) = 0
        THEN current_picker - position
        ELSE LET remaining_picks_this_round == teams - pick_in_round + 1
                 next_round_position ==
                     IF PyMod(current_round, 2) = 1
                     THEN teams - position + 1
                     ELSE position
             IN  remaining_picks_this_round + next_round_position - 1

PicksUntilYours(total_picks_made, teams, position) ==
    LET current_round == CurrentRound(total_picks_made, teams)
        pick_in_round == PickInRound(total_picks_made, teams)
        current_picker == CurrentPicker(total_picks_made, teams)
    IN  IF current_picker <= position /\ PyMod(current_round, 2) = 1
        THEN position - current_picker
        ELSE IF current_picker >= position /\ PyMod(current_round, 2) = 0
        THEN current_picker - position
        ELSE LET remaining_picks_this_round == teams - pick_in_round + 1
                 next_round_position ==
                     IF PyMod(current_round, 2) = 1
                     THEN teams - position + 1
                     ELSE position
             IN  remaining_picks_this_round + next_round_position - 1

\* no call of calculate_current_pick has been made
NoStatus ==
    [status |-> "none", current_round |-> 0, current_picker |-> 0,
     picks_until_yours |-> 0, total_picks_made |-> 0]

\* The outcome of calculate_current_pick: the returned dict (status "ok"), or the
\* ZeroDivisionError that total_picks_made // 0 raises.
calculate_current_pick(taken, teams, position) ==
    IF teams = 0
    THEN [status |-> "ZeroDivisionError", current_round |-> 0, current_picker |-> 0,
          picks_until_yours |-> 0, total_picks_made |-> Len(taken)]
    ELSE [status |-> "ok",
          current_round |-> CurrentRound(Len(taken), teams),
          current_picker |-> CurrentPicker(Len(taken), teams),
          picks_until_yours |-> PicksUntilYours(Len(taken), teams, position),
          total_picks_made |-> Len(taken)]

-----------------------------------------------------------------------------
(* Outcomes of method calls, as recorded in output *)

Out(op, arg, n, signal, taken_signal, rows, not_found, needs, status) ==
    [op |-> op, arg |-> arg, n |-> n, signal |-> signal, taken_signal |-> taken_signal,
     rows |-> rows, not_found |-> not_found, needs |-> needs, status |-> status,
     exclude_teams |-> <<>>, requested |-> <<>>, position |-> ""]

NoOutput == Out("none", "", 0, "none", "none", <<>>, <<>>, <<>>, NoStatus)

-----------------------------------------------------------------------------
(* LiveDraftTool.add_taken_player *)

TakenListReplaced(taken, player_name) == <<player_name>>

\* the list after add_taken_player(player_name)
TakenList(taken, player_name) ==
    IF player_name \notin Range(taken) THEN Append(taken, player_name) ELSE taken

\* what add_taken_player(player_name) prints
TakenSignal(taken, player_name) ==
    IF player_name \notin Range(taken) THEN "added" ELSE "already taken"

\* the draft status add_taken_player prints after a new name was appended
TakenStatus(taken, player_name) ==
    IF player_name \notin Range(taken)
    THEN calculate_current_pick(Append(taken, player_name), total_teams, your_position)
    ELSE NoStatus

add_taken_player(player_name) ==
    /\ taken_players' = TakenList(taken_players, player_name)
    /\ output' = Out("add_taken_player", player_name, 0,
                     TakenSignal(taken_players, player_name),
                     TakenSignal(taken_players, player_name),
                     <<>>, <<>>, <<>>, TakenStatus(taken_players, player_name))
    /\ UNCHANGED <<your_roster, players_data, your_position, total_teams>>

-----------------------------------------------------------------------------
(* LiveDraftTool.get_available_players and suggest_players *)

\* num_suggestions of suggest_players, which the 'suggest' command does not override
DefaultSuggestions == 8

\* pandas DataFrame.head(n): the first n rows; for negative n all rows but the last -n
DataFrameHead(t, n) ==
    IF n >= 0 THEN SubSeq(t, 1, Min(n, Len(t)))
    ELSE SubSeq(t, 1, Max(Len(t) + n, 0))

AvailableUnfiltered(data, taken, position) == data[position]

\* the rows of the position's table whose name is not in the taken list
Available(data, taken, position) ==
    LET NotTaken(row) == row.name \notin Range(taken)
    IN  SelectSeq(data[position], NotTaken)

get_available_players(data, taken, position, num_suggestions) ==
    IF DOMAIN data = {} \/ position \notin DOMAIN data
    THEN <<>>
    ELSE IF Available(data, taken, position) = <<>>
    THEN <<>>
    ELSE DataFrameHead(Available(data, taken, position), num_suggestions)

\* the message get_available_players prints, if any
AvailableSignal(data, taken, position) ==
    IF DOMAIN data = {} \/ position \notin DOMAIN data
    THEN "no data"
    ELSE IF Available(data, taken, position) = <<>>
    THEN "none available"
    ELSE "ok"

\* get_available_players(position, n) called on the object
call_get_available_players(position, n) ==
    /\ output' = Out("get_available_players", position, n,
                     AvailableSignal(players_data, taken_players, position), "none",
                     get_available_players(players_data, taken_players, position, n),
                     <<>>, <<>>, NoStatus)
    /\ UNCHANGED <<taken_players, your_roster, players_data, your_position, total_teams>>

\* suggest_players(position, n): the rows it prints are those get_available_players returns
suggest_players(position, n) ==
    /\ output' = Out("suggest_players", position, n,
                     AvailableSignal(players_data, taken_players, position), "none",
                     get_available_players(players_data, taken_players, position, n),
                     <<>>, <<>>, NoStatus)
    /\ UNCHANGED <<taken_players, your_roster, players_data, your_position, total_teams>>

-----------------------------------------------------------------------------
(* LiveDraftTool.compare_players and search_player *)

FoundRow(row, pos, taken) ==
    [name |-> row.name, fpl_score |-> row.fpl_score, position |-> pos,
     taken |-> (row.name \in Range(taken))]

\* the rows of data[pos] whose name contains term, if the position is loaded
Matches(data, pos, term) ==
    IF pos \in DOMAIN data
    THEN LET Hit(row) == StrContains(row.name, term) IN SelectSeq(data[pos], Hit)
    ELSE <<>>

\* index in Positions of the first position with a match, 0 if there is none
FirstMatchPos(data, term) ==
    IF \E i \in 1..Len(Positions) : Matches(data, Positions[i], term) # <<>>
    THEN CHOOSE i \in 1..Len(Positions) :
            /\ Matches(data, Positions[i], term) # <<>>
            /\ \A j \in 1..(i - 1) : Matches(data, Positions[j], term) = <<>>
    ELSE 0

\* comparison_data: one row per requested name that matched, in request order
RECURSIVE ComparisonData(_, _, _)
ComparisonData(data, taken, player_names) ==
    IF player_names = <<>> THEN <<>>
    ELSE LET i == FirstMatchPos(data, Head(player_names))
             rest == ComparisonData(data, taken, Tail(player_names))
         IN  IF i = 0 THEN rest
             ELSE <<FoundRow(Head(Matches(data, Positions[i], Head(player_names))),
                             Positions[i], taken)>> \o rest

\* the requested names reported as not found, in request order
NotFound(data, player_names) ==
    LET Missing(nm) == FirstMatchPos(data, nm) = 0 IN SelectSeq(player_names, Missing)

compare_players(player_names) ==
    LET found == ComparisonData(players_data, taken_players, player_names)
    IN  /\ output' = [Out("compare_players", "", Len(player_names),
                          IF Len(found) < 2 THEN "need at least 2" ELSE "compared", "none",
                          IF Len(found) < 2 THEN <<>> ELSE found,
                          NotFound(players_data, player_names), <<>>, NoStatus)
                      EXCEPT !.requested = player_names]
        /\ UNCHANGED <<taken_players, your_roster, players_data, your_position, total_teams>>

\* the rows search_player prints: every match, position by position
RECURSIVE SearchRows(_, _, _, _)
SearchRows(data, taken, term, i) ==
    IF i > Len(Positions) THEN <<>>
    ELSE LET Found(row) == FoundRow(row, Positions[i], taken)
             hits == Matches(data, Positions[i], term)
         IN  [k \in 1..Len(hits) |-> Found(hits[k])] \o SearchRows(data, taken, term, i + 1)

search_player(search_term) ==
    LET rows == SearchRows(players_data, taken_players, search_term, 1)
    IN  /\ output' = Out("search_player", search_term, 0,
                         IF rows = <<>> THEN "no players found" ELSE "found", "none",
                         rows, <<>>, <<>>, NoStatus)
        /\ UNCHANGED <<taken_players, your_roster, players_data, your_position, total_teams>>

-----------------------------------------------------------------------------
(* LiveDraftTool.show_draft_status, get_draft_strategy, add_to_your_roster *)

\* the order of the keys of roster_requirements and your_roster
RosterOrder == <<"FW", "MF", "DF", "GK", "BENCH">>

show_draft_status ==
    /\ output' = Out("show_draft_status", "", 0, "shown", "none", <<>>, <<>>, <<>>,
                     calculate_current_pick(taken_players, total_teams, your_position))
    /\ UNCHANGED <<taken_players, your_roster, players_data, your_position, total_teams>>

RosterNeedsAll(roster) ==
    [k \in 1..Len(RosterOrder) |->
        [position |-> RosterOrder[k],
         needed |-> roster_requirements[RosterOrder[k]] - Len(roster[RosterOrder[k]])]]

\* roster_needs of get_draft_strategy: the non-bench positions still short, in key order
RosterNeeds(roster) ==
    LET Short(pos) == pos # "BENCH" /\ Len(roster[pos]) < roster_requirements[pos]
        short == SelectSeq(RosterOrder, Short)
    IN  [k \in 1..Len(short) |->
            [position |-> short[k],
             needed |-> roster_requirements[short[k]] - Len(roster[short[k]])]]

\* the ZeroDivisionError of calculate_current_pick ends the method before the needs
get_draft_strategy ==
    /\ output' = Out("get_draft_strategy", "", 0, "shown", "none", <<>>, <<>>,
                     IF total_teams = 0 THEN <<>> ELSE RosterNeeds(your_roster),
                     calculate_current_pick(taken_players, total_teams, your_position))
    /\ UNCHANGED <<taken_players, your_roster, players_data, your_position, total_teams>>

\* the outcome of add_to_your_roster(player_name, position)
RosterSignalUpTo(roster, position) ==
    IF position \in DOMAIN roster
    THEN IF Len(roster[position]) <= roster_requirements[position] \/ position = "BENCH"
         THEN "added"
         ELSE "full"
    ELSE "invalid position"

\* what add_to_your_roster does with the request: the position has to be one of the
\* roster's, and to have room unless it is the bench
RosterSignal(roster, position) ==
    IF position \in DOMAIN roster
    THEN IF Len(roster[position]) < roster_requirements[position] \/ position = "BENCH"
         THEN "added"
         ELSE "full"
    ELSE "invalid position"

add_to_your_roster_unmarked(player_name, position) ==
    /\ your_roster' = IF RosterSignal(your_roster, position) = "added"
                      THEN [your_roster EXCEPT ![position] = Append(@, player_name)]
                      ELSE your_roster
    /\ output' = [Out("add_to_your_roster", player_name, 0,
                      RosterSignal(your_roster, position), "none", <<>>, <<>>, <<>>,
                      NoStatus)
                      EXCEPT !.position = position]
    /\ UNCHANGED <<taken_players, players_data, your_position, total_teams>>

add_to_your_roster_marking(player_name, position) ==
    /\ your_roster' = IF RosterSignal(your_roster, position) = "added"
                      THEN [your_roster EXCEPT ![position] = Append(@, player_name)]
                      ELSE your_roster
    /\ taken_players' = TakenList(taken_players, player_name)
    /\ output' = [Out("add_to_your_roster", player_name, 0,
                      RosterSignal(your_roster, position),
                      TakenSignal(taken_players, player_name), <<>>, <<>>, <<>>,
                      TakenStatus(taken_players, player_name))
                      EXCEPT !.position = position]
    /\ UNCHANGED <<players_data, your_position, total_teams>>

add_to_your_roster(player_name, position) ==
    IF RosterSignal(your_roster, position) = "added"
    THEN /\ your_roster' = [your_roster EXCEPT ![position] = Append(@, player_name)]
         /\ taken_players' = TakenList(taken_players, player_name)
         /\ output' = [Out("add_to_your_roster", player_name, 0, "added",
                           TakenSignal(taken_players, player_name), <<>>, <<>>, <<>>,
                           TakenStatus(taken_players, player_name))
                           EXCEPT !.position = position]
         /\ UNCHANGED <<players_data, your_position, total_teams>>
    ELSE /\ output' = [Out("add_to_your_roster", player_name, 0,
                           RosterSignal(your_roster, position), "none", <<>>, <<>>, <<>>,
                           NoStatus)
                           EXCEPT !.position = position]
         /\ UNCHANGED <<taken_players, your_roster, players_data, your_position,
                        total_teams>>

-----------------------------------------------------------------------------
(* FPLPlayerAnalyzer: data *)

\* the weights of _initialize_position_weights, in hundredths of a point
position_weights ==
    [FW |-> [goals |-> 900, assists |-> 600, shots_on_target |-> 200, key_passes |-> 200,
              successful_dribbles |-> 100, accurate_crosses |-> 100,
              yellow_cards |-> (0 - 200), red_cards |-> (0 - 700), aerials_won |-> 50,
              effective_clearances |-> 15, saves |-> 200, smothers |-> 100,
              clean_sheets |-> 25, tackles_won |-> 100, penalty_kicks_drawn |-> 200,
              penalty_kicks_missed |-> (0 - 400), own_goals |-> (0 - 500),
              dispossessed |-> (0 - 50), blocked_shots |-> 100,
              goals_against |-> (0 - 15), interceptions |-> 100, penalty_saves |-> 800,
              high_claims |-> 100],
     MF |-> [goals |-> 900, assists |-> 600, shots_on_target |-> 200, key_passes |-> 200,
              successful_dribbles |-> 100, accurate_crosses |-> 100, tackles_won |-> 100,
              interceptions |-> 100, yellow_cards |-> (0 - 200), red_cards |-> (0 - 700),
              clean_sheets |-> 75, saves |-> 200, smothers |-> 100,
              effective_clearances |-> 25, aerials_won |-> 50,
              penalty_kicks_drawn |-> 200, own_goals |-> (0 - 500),
              dispossessed |-> (0 - 50), blocked_shots |-> 100,
              goals_against |-> (0 - 100), penalty_kicks_missed |-> (0 - 400),
              penalty_saves |-> 800, high_claims |-> 100],
     DF |-> [goals |-> 1000, assists |-> 700, goals_against |-> (0 - 200),
              tackles_won |-> 100, interceptions |-> 100, yellow_cards |-> (0 - 200),
              red_cards |-> (0 - 700), clean_sheets |-> 400, shots_on_target |-> 200,
              saves |-> 200, penalty_kicks_drawn |-> 200, smothers |-> 100,
              key_passes |-> 200, successful_dribbles |-> 100, aerials_won |-> 100,
              blocked_shots |-> 100, effective_clearances |-> 25,
              own_goals |-> (0 - 500), dispossessed |-> (0 - 50), penalty_saves |-> 800,
              penalty_kicks_missed |-> (0 - 400), accurate_crosses |-> 100,
              high_claims |-> 100],
     GK |-> [goals_against |-> (0 - 200), clean_sheets |-> 300, saves |-> 200,
              high_claims |-> 100, smothers |-> 100, yellow_cards |-> (0 - 200),
              red_cards |-> (0 - 700), shots_on_target |-> 200, tackles_won |-> 100,
              key_passes |-> 200, clean_sheets_full_game |-> 500,
              penalty_kicks_missed |-> (0 - 400), assists |-> 700,
              penalty_kicks_drawn |-> 200, dispossessed |-> (0 - 50),
              aerials_won |-> 100, blocked_shots |-> 100, effective_clearances |-> 25,
              successful_dribbles |-> 100, goals |-> 1000, penalty_saves |-> 800,
              own_goals |-> (0 - 500), interceptions |-> 100, accurate_crosses |-> 100]]

\* the table load_sample_data builds
load_sample_data ==
    <<[player |-> "Mohamed Salah", team |-> "Liverpool", position |-> "FW", goals |-> 24,
       assists |-> 13, shots_on_target |-> 89, key_passes |-> 86,
       successful_dribbles |-> 45, tackles_won |-> 23, interceptions |-> 12,
       clean_sheets |-> 18, yellow_cards |-> 2, red_cards |-> 0, games_played |-> 34,
       minutes_played |-> 3060],
      [player |-> "Bruno Fernandes", team |-> "Manchester Utd", position |-> "MF",
       goals |-> 8, assists |-> 15, shots_on_target |-> 45, key_passes |-> 102,
       successful_dribbles |-> 23, tackles_won |-> 45, interceptions |-> 34,
       clean_sheets |-> 12, yellow_cards |-> 5, red_cards |-> 0, games_played |-> 32,
       minutes_played |-> 2880],
      [player |-> "Virgil van Dijk", team |-> "Liverpool", position |-> "DF",
       goals |-> 2, assists |-> 3, shots_on_target |-> 12, key_passes |-> 23,
       successful_dribbles |-> 8, tackles_won |-> 67, interceptions |-> 89,
       clean_sheets |-> 18, yellow_cards |-> 1, red_cards |-> 0, games_played |-> 35,
       minutes_played |-> 3150],
      [player |-> "Alisson", team |-> "Liverpool", position |-> "GK", goals |-> 0,
       assists |-> 1, shots_on_target |-> 2, key_passes |-> 12,
       successful_dribbles |-> 1, tackles_won |-> 12, interceptions |-> 23,
       clean_sheets |-> 18, yellow_cards |-> 0, red_cards |-> 0, games_played |-> 36,
       minutes_played |-> 3240],
      [player |-> "Harry Kane", team |-> "Bayern Munich", position |-> "FW",
       goals |-> 36, assists |-> 8, shots_on_target |-> 156, key_passes |-> 78,
       successful_dribbles |-> 34, tackles_won |-> 12, interceptions |-> 8,
       clean_sheets |-> 0, yellow_cards |-> 4, red_cards |-> 0, games_played |-> 35,
       minutes_played |-> 3150],
      [player |-> "Kevin De Bruyne", team |-> "Manchester City", position |-> "MF",
       goals |-> 7, assists |-> 18, shots_on_target |-> 31, key_passes |-> 124,
       successful_dribbles |-> 12, tackles_won |-> 34, interceptions |-> 23,
       clean_sheets |-> 15, yellow_cards |-> 3, red_cards |-> 0, games_played |-> 28,
       minutes_played |-> 2340],
      [player |-> "Ruben Dias", team |-> "Manchester City", position |-> "DF",
       goals |-> 1, assists |-> 2, shots_on_target |-> 8, key_passes |-> 18,
       successful_dribbles |-> 4, tackles_won |-> 78, interceptions |-> 67,
       clean_sheets |-> 15, yellow_cards |-> 2, red_cards |-> 0, games_played |-> 33,
       minutes_played |-> 2970],
      [player |-> "Jordan Pickford", team |-> "Everton", position |-> "GK", goals |-> 0,
       assists |-> 1, shots_on_target |-> 3, key_passes |-> 15,
       successful_dribbles |-> 2, tackles_won |-> 8, interceptions |-> 15,
       clean_sheets |-> 8, yellow_cards |-> 1, red_cards |-> 0, games_played |-> 36,
       minutes_played |-> 3240],
      [player |-> "Bukayo Saka", team |-> "Arsenal", position |-> "MF", goals |-> 11,
       assists |-> 13, shots_on_target |-> 67, key_passes |-> 89,
       successful_dribbles |-> 78, tackles_won |-> 34, interceptions |-> 23,
       clean_sheets |-> 12, yellow_cards |-> 1, red_cards |-> 0, games_played |-> 35,
       minutes_played |-> 3150],
      [player |-> "Gabriel Jesus", team |-> "Arsenal", position |-> "FW", goals |-> 11,
       assists |-> 5, shots_on_target |-> 43, key_passes |-> 34,
       successful_dribbles |-> 23, tackles_won |-> 18, interceptions |-> 12,
       clean_sheets |-> 12, yellow_cards |-> 2, red_cards |-> 0, games_played |-> 29,
       minutes_played |-> 2320],
      [player |-> "William Saliba", team |-> "Arsenal", position |-> "DF", goals |-> 1,
       assists |-> 1, shots_on_target |-> 6, key_passes |-> 12,
       successful_dribbles |-> 3, tackles_won |-> 89, interceptions |-> 78,
       clean_sheets |-> 18, yellow_cards |-> 3, red_cards |-> 0, games_played |-> 34,
       minutes_played |-> 3060],
      [player |-> "Aaron Ramsdale", team |-> "Arsenal", position |-> "GK", goals |-> 0,
       assists |-> 0, shots_on_target |-> 1, key_passes |-> 8, successful_dribbles |-> 1,
       tackles_won |-> 6, interceptions |-> 9, clean_sheets |-> 8, yellow_cards |-> 0,
       red_cards |-> 0, games_played |-> 32, minutes_played |-> 2880]>>

\* a row with the columns of load_sample_data, the statistics not given being 0
SmallRow(player, team, position, goals, games_played) ==
    [player |-> player, team |-> team, position |-> position, goals |-> goals,
     assists |-> 0, shots_on_target |-> 0, key_passes |-> 0, successful_dribbles |-> 0,
     tackles_won |-> 0, interceptions |-> 0, clean_sheets |-> 0, yellow_cards |-> 0,
     red_cards |-> 0, games_played |-> games_played, minutes_played |-> 0]

SmallPlayers == <<"Harry Kane", "Mohamed Salah", "Alisson", "Gabriel Jesus">>

SmallTeams == <<"Bayern Munich", "Liverpool", "Liverpool", "Arsenal">>

SmallPositions == <<"FW", "FW", "GK", "FW">>

\* the season length the scores are projected to
FullSeason == 38

\* the rows the i-th player of a small table may be
SmallRows(i) ==
    {SmallRow(SmallPlayers[i], SmallTeams[i], SmallPositions[i], g, gp) :
        g \in 1..2, gp \in {0, FullSeason \div 2, FullSeason}}

\* tables of real data standing in for the sample: row i is about the i-th player
SmallTables ==
    UNION {{t \in [1..k -> UNION {SmallRows(i) : i \in 1..k}] :
                \A i \in 1..k : t[i] \in SmallRows(i)} : k \in 0..MaxRows}

\* the tables the analyzer is run on
AnalyzerTables == SmallTables \cup {load_sample_data}

-----------------------------------------------------------------------------
(* FPLPlayerAnalyzer.calculate_fpl_score *)

\* a number num/den with den > 0
Rational(num, den) == [num |-> num, den |-> den]

RatLess(a, b) == a.num * b.den < b.num * a.den

RatEqual(a, b) == a.num * b.den = b.num * a.den

RECURSIVE SumOver(_, _, _)
SumOver(stats, row, weights) ==
    IF stats = {} THEN 0
    ELSE LET stat == CHOOSE x \in stats : TRUE
         IN  row[stat] * weights[stat] + SumOver(stats \ {stat}, row, weights)

RawScoreWithUnweighted(row, position) ==
    SumOver(DOMAIN position_weights[position] \cap DOMAIN row, row,
            position_weights[position])
    + (IF "minutes_played" \in DOMAIN row THEN row.minutes_played * 100 ELSE 0)

\* the sum of count * weight over the weighted statistics the row has (hundredths)
RawScore(row, position) ==
    SumOver(DOMAIN position_weights[position] \cap DOMAIN row, row,
            position_weights[position])

\* the score in hundredths of a point, as an exact fraction
calculate_fpl_score(row, position) ==
    IF "games_played" \in DOMAIN row /\ row.games_played > 0
    THEN Rational(RawScore(row, position) * FullSeason, Max(row.games_played, 1))
    ELSE Rational(RawScore(row, position), 1)

-----------------------------------------------------------------------------
(* FPLPlayerAnalyzer.add_taken_players and suggest_players *)

\* list.extend
TakenExtended(taken, players) == taken \o players

\* pandas count / games_played: a fraction, inf for x/0 with x > 0, NaN for 0/0
PerGame(count, games) ==
    IF games # 0 THEN [kind |-> "finite", num |-> count, den |-> games]
    ELSE IF count > 0 THEN [kind |-> "inf", num |-> 0, den |-> 1]
    ELSE [kind |-> "nan", num |-> 0, den |-> 1]

\* the columns suggest_players returns for a row
Suggestion(row, position) ==
    [player |-> row.player, team |-> row.team, position |-> row.position,
     fpl_score |-> calculate_fpl_score(row, position),
     goals |-> row.goals, assists |-> row.assists,
     goals_per_game |-> PerGame(row.goals, row.games_played),
     assists_per_game |-> PerGame(row.assists, row.games_played),
     games_played |-> row.games_played]

AvailablePlayersUnfiltered(df, taken, position, exclude_teams) ==
    LET Keep(row) == row.position = position /\ row.team \notin Range(exclude_teams)
        kept == SelectSeq(df, Keep)
    IN  [k \in 1..Len(kept) |-> Suggestion(kept[k], position)]

AvailablePlayersAnyTeam(df, taken, position, exclude_teams) ==
    LET Keep(row) == row.position = position /\ row.player \notin Range(taken)
        kept == SelectSeq(df, Keep)
    IN  [k \in 1..Len(kept) |-> Suggestion(kept[k], position)]

\* available_players with its fpl_score and per-game columns
AvailablePlayers(df, taken, position, exclude_teams) ==
    LET Keep(row) ==
            /\ row.position = position
            /\ row.player \notin Range(taken)
            /\ row.team \notin Range(exclude_teams)
        kept == SelectSeq(df, Keep)
    IN  [k \in 1..Len(kept) |-> Suggestion(kept[k], position)]

RankOfLastFirst(t, i) ==
    1 + Cardinality({j \in 1..Len(t) : RatLess(t[i].fpl_score, t[j].fpl_score)})
      + Cardinality({j \in (i + 1)..Len(t) : RatEqual(t[i].fpl_score, t[j].fpl_score)})

\* the place of row i when t is put in descending order of fpl_score, rows of
\* equal score keeping their order
RankOf(t, i) ==
    1 + Cardinality({j \in 1..Len(t) : RatLess(t[i].fpl_score, t[j].fpl_score)})
      + Cardinality({j \in 1..(i - 1) : RatEqual(t[i].fpl_score, t[j].fpl_score)})

SortedByScore(t) == [k \in 1..Len(t) |-> t[CHOOSE i \in 1..Len(t) : RankOf(t, i) = k]]

NLargestUnsorted(t, n) ==
    IF n <= 0 THEN <<>> ELSE SubSeq(t, 1, Min(n, Len(t)))

\* pandas DataFrame.nlargest(n, 'fpl_score'): nothing for n <= 0
NLargest(t, n) ==
    IF n <= 0 THEN <<>> ELSE SubSeq(SortedByScore(t), 1, Min(n, Len(t)))

analyzer_suggest_players(df, taken, position, num_suggestions, exclude_teams) ==
    IF AvailablePlayers(df, taken, position, exclude_teams) = <<>>
    THEN <<>>
    ELSE NLargest(AvailablePlayers(df, taken, position, exclude_teams), num_suggestions)

\* comparison_players: the rows of df whose player is one of the names, in df order
ComparisonPlayers(df, player_names) ==
    LET Named(row) == row.player \in Range(player_names) IN SelectSeq(df, Named)

\* the columns compare_players returns for a row, scored at the row's own position
ComparisonRow(row) ==
    [player |-> row.player, team |-> row.team, position |-> row.position,
     fpl_score |-> calculate_fpl_score(row, row.position),
     goals_per_game |-> PerGame(row.goals, row.games_played),
     assists_per_game |-> PerGame(row.assists, row.games_played),
     key_passes_per_game |-> PerGame(row.key_passes, row.games_played),
     tackles_won |-> row.tackles_won, clean_sheets |-> row.clean_sheets]

\* FPLPlayerAnalyzer.compare_players: an empty table when no name is in df
analyzer_compare_players(df, player_names) ==
    [k \in 1..Len(ComparisonPlayers(df, player_names)) |->
        ComparisonRow(ComparisonPlayers(df, player_names)[k])]


\* _initialize_position_weights of pre_draft.py, in hundredths of a point
pre_draft_position_weights ==
    [FW |-> [goals |-> 900, assists |-> 600, shots_on_target |-> 200,
              key_passes |-> 200, successful_dribbles |-> 100,
              accurate_crosses |-> 100, yellow_cards |-> (0 - 200),
              red_cards |-> (0 - 700), aerials_won |-> 50, clean_sheets |-> 25,
              penalty_goals |-> 900, penalty_missed |-> (0 - 400),
              own_goals |-> (0 - 500)],
     MF |-> [goals |-> 900, assists |-> 600, shots_on_target |-> 200,
              key_passes |-> 200, successful_dribbles |-> 100,
              accurate_crosses |-> 100, tackles_won |-> 100, interceptions |-> 100,
              yellow_cards |-> (0 - 200), red_cards |-> (0 - 700), clean_sheets |-> 75,
              penalty_goals |-> 900, penalty_missed |-> (0 - 400)],
     DF |-> [goals |-> 1000, assists |-> 700, clean_sheets |-> 400,
              tackles_won |-> 100, interceptions |-> 100, yellow_cards |-> (0 - 200),
              red_cards |-> (0 - 700), shots_on_target |-> 200, aerials_won |-> 100,
              penalty_goals |-> 1000, goals_against |-> (0 - 200),
              own_goals |-> (0 - 500)],
     GK |-> [clean_sheets |-> 500, saves |-> 200, penalty_saves |-> 800,
              goals_against |-> (0 - 200), yellow_cards |-> (0 - 200),
              red_cards |-> (0 - 700), assists |-> 700, goals |-> 1000]]

\* the number of games a score is projected to by calc_score
ProjectedGames == 38

\* minutes of a full game, in the per-90 columns
FullGame == 90

\* count * 90 / mins.replace(0, 1)
Per90(count, mins) == Rational(count * FullGame, IF mins = 0 THEN 1 ELSE mins)

\* _clean_player_data: the derived columns added to a fetched row
clean_player_data(row) ==
    [f \in DOMAIN row \cup {"goal_contributions", "gc_per_90"} |->
        IF f = "goal_contributions" THEN row.goals + row.assists
        ELSE IF f = "gc_per_90" THEN Per90(row.goals + row.assists, row.mins)
        ELSE row[f]]

\* a fetched row: the player has played every minute of the games he appeared in
FetchedRow(name, team, position, goals, assists, apps) ==
    [name |-> name, team |-> team, position |-> position, goals |-> goals,
     assists |-> assists, apps |-> apps, mins |-> FullGame * apps]

\* the same row fetched from a source that gives no 'apps'
WithoutColumn(row, column) == [f \in DOMAIN row \ {column} |-> row[f]]

PoolPlayers == <<"Mohamed Salah", "Bruno Fernandes", "Virgil van Dijk", "Alisson">>

PoolTeams == <<"Liverpool", "Manchester United", "Liverpool", "Liverpool">>

\* the position the source may give the i-th player ("XX": none of the four)
PoolPositions == <<{"FW", "GK"}, {"FW", "DF"}, {"FW", "XX"}, {"FW"}>>

\* goals and assists a player may have
PoolStats == {<<2, 0>>, <<0, 2>>, <<1, 0>>, <<1, 1>>}

\* appearances the i-th player may have: every game, and none for the first player,
\* half of the games for the third
PoolApps ==
    <<{0, ProjectedGames}, {ProjectedGames}, {ProjectedGames \div 2, ProjectedGames},
      {ProjectedGames}>>

\* goals, assists and appearances together (one kind of player without appearances)
PoolKinds(i) ==
    {k \in {<<st[1], st[2], apps>> : st \in PoolStats, apps \in PoolApps[i]} :
        k[3] > 0 \/ (k[1] = 1 /\ k[2] = 0)}

\* the rows the source may give for the i-th player
FetchedRows(i) ==
    {FetchedRow(PoolPlayers[i], PoolTeams[i], p, k[1], k[2], k[3]) :
        p \in PoolPositions[i], k \in PoolKinds(i)}

\* the cleaned rows of the first k players of the pool
RECURSIVE PoolsOf(_)
PoolsOf(k) ==
    IF k = 0 THEN {<<>>}
    ELSE {Append(t, clean_player_data(r)) : t \in PoolsOf(k - 1), r \in FetchedRows(k)}

SquadPlayers ==
    <<"Mohamed Salah", "Harry Kane", "Erling Haaland", "Son Heung-min", "Bukayo Saka",
      "Ollie Watkins", "Alexander Isak", "Cole Palmer", "Jarrod Bowen", "Dominic Solanke">>

\* a forward of a pool of forwards: a scorer or a provider, in every game
SquadKinds == {<<2, 0>>, <<0, 2>>}

\* the cleaned rows of k forwards
RECURSIVE SquadsOf(_)
SquadsOf(k) ==
    IF k = 0 THEN {<<>>}
    ELSE {Append(t, clean_player_data(FetchedRow(SquadPlayers[k], "Liverpool", "FW",
                                                  st[1], st[2], ProjectedGames))) :
             t \in SquadsOf(k - 1), st \in SquadKinds}

\* what _process_api_data leaves in players_data: the cleaned rows of up to MaxPool
\* players, of MaxSquad forwards, or of one player from a source without 'apps'
FetchedPools ==
    UNION {PoolsOf(k) : k \in 0..MaxPool}
    \cup SquadsOf(MaxSquad)
    \cup {<<WithoutColumn(clean_player_data(r), "apps")>> : r \in FetchedRows(1)}

\* the weighted sum over the statistics the row has (hundredths)
PreDraftRawScore(row) ==
    SumOver(DOMAIN pre_draft_position_weights[row.position] \cap DOMAIN row, row,
            pre_draft_position_weights[row.position])

calc_score_unscaled(row) ==
    IF row.position \notin DOMAIN pre_draft_position_weights
    THEN Rational(0, 1)
    ELSE Rational(PreDraftRawScore(row), 1)

\* calc_score of calculate_fpl_scores: 0 for a position without weights; else
\* score / max(row.get('apps', 1), 1) * 38
calc_score(row) ==
    IF row.position \notin DOMAIN pre_draft_position_weights
    THEN Rational(0, 1)
    ELSE Rational(PreDraftRawScore(row) * ProjectedGames,
                  Max(IF "apps" \in DOMAIN row THEN row.apps ELSE 1, 1))

\* the row with its fpl_score column
Scored(row) ==
    [f \in DOMAIN row \cup {"fpl_score"} |->
        IF f = "fpl_score" THEN calc_score(row) ELSE row[f]]

\* round(x) of a fraction num / den with den > 0: to the nearest integer, a half
\* to the even one
RoundHalfEven(num, den) ==
    LET q == num \div den
        r == num % den
    IN  IF 2 * r < den THEN q
        ELSE IF 2 * r > den THEN q + 1
        ELSE IF q % 2 = 0 THEN q ELSE q + 1

\* .round(2) of a value kept in hundredths, and of a value kept in units
RoundHundredths(x) == Rational(RoundHalfEven(x.num, x.den), 1)

RoundUnits(x) == Rational(RoundHalfEven(100 * x.num, x.den), 100)

\* the k-th smallest of a sequence of fractions
KthSmallest(values, k) ==
    values[CHOOSE i \in 1..Len(values) :
        /\ Cardinality({j \in 1..Len(values) : RatLess(values[j], values[i])}) < k
        /\ Cardinality({j \in 1..Len(values) : ~RatLess(values[i], values[j])}) >= k]

RECURSIVE GCD(_, _)
GCD(a, b) == IF b = 0 THEN a ELSE GCD(b, a % b)

\* the same fraction in lowest terms
Reduced(x) ==
    LET g == GCD(IF x.num < 0 THEN 0 - x.num ELSE x.num, x.den)
    IN  Rational(x.num \div g, x.den \div g)

\* Series.quantile(tenths / 10) with linear interpolation between the two order
\* statistics around position (n - 1) * tenths / 10
Quantile(values, tenths) ==
    LET h  == (Len(values) - 1) * tenths
        lo == Reduced(KthSmallest(values, h \div 10 + 1))
        hi == Reduced(KthSmallest(values, Min(h \div 10 + 2, Len(values))))
        f  == h % 10
    IN  IF f = 0 THEN lo
        ELSE Reduced(Rational(lo.num * hi.den * (10 - f) + hi.num * lo.den * f,
                              10 * lo.den * hi.den))

\* row.get(column, 0)
GetOr0(row, column) == IF column \in DOMAIN row THEN row[column] ELSE 0

\* the positions identify_value_picks goes through, in its order
ValuePositions == <<"FW", "MF", "DF", "GK">>

\* value_metric of a row at a position
value_metric(row, pos) ==
    IF pos \in {"FW", "MF"} THEN row.gc_per_90
    ELSE IF pos = "DF"
    THEN Rational(GetOr0(row, "clean_sheets") * 2 + row.goal_contributions, 1)
    ELSE Rational(GetOr0(row, "clean_sheets") * 10 + GetOr0(row, "saves"), 10)

\* the quantile of value_metric a value pick has to reach, in tenths
MetricQuantile(pos) == IF pos \in {"FW", "MF"} THEN 7 ELSE 6

\* the quantile of fpl_score a value pick has to stay under, in tenths
ScoreQuantile == 8

\* eligible[eligible['position'] == pos] with its value_metric column
pos_data(df, min_apps, pos) ==
    LET Kept(row) == row.apps >= min_apps /\ row.position = pos
        kept == SelectSeq(df, Kept)
    IN  [i \in 1..Len(kept) |->
            [f \in DOMAIN kept[i] \cup {"value_metric"} |->
                IF f = "value_metric" THEN value_metric(kept[i], pos) ELSE kept[i][f]]]

Column(t, column) == [i \in 1..Len(t) |-> t[i][column]]

\* the rows picked out of pos_data: good metric, score under the score threshold
value_candidates_any_score(t, pos) ==
    LET threshold == Quantile(Column(t, "value_metric"), MetricQuantile(pos))
        Good(row) == ~RatLess(row.value_metric, threshold)
    IN  SelectSeq(t, Good)

value_candidates(t, pos) ==
    LET threshold     == Quantile(Column(t, "value_metric"), MetricQuantile(pos))
        fpl_threshold == Quantile(Column(t, "fpl_score"), ScoreQuantile)
        Good(row) == /\ ~RatLess(row.value_metric, threshold)
                     /\ RatLess(row.fpl_score, fpl_threshold)
    IN  SelectSeq(t, Good)

\* the place of row i when t is put in ascending order of fpl_score, rows of equal
\* score keeping their order
AscendingRankOf(t, i) ==
    1 + Cardinality({j \in 1..Len(t) : RatLess(t[j].fpl_score, t[i].fpl_score)})
      + Cardinality({j \in 1..(i - 1) : RatEqual(t[i].fpl_score, t[j].fpl_score)})

NSmallestUnsorted(t, n) ==
    SubSeq(t, 1, Min(n, Len(t)))

\* pandas DataFrame.nsmallest(n, 'fpl_score')
NSmallest(t, n) ==
    SubSeq([k \in 1..Len(t) |-> t[CHOOSE i \in 1..Len(t) : AscendingRankOf(t, i) = k]],
           1, Min(n, Len(t)))

\* the candidates looked at, and the picks shown, per position
MostCandidates == 10

MostPicks == 5

\* the columns shown for a value pick of a position
display_cols(pos) ==
    {"name", "team", "apps", "value_metric", "fpl_score"}
    \cup (IF pos \in {"FW", "MF"} THEN {"goals", "assists", "gc_per_90"}
          ELSE IF pos = "DF" THEN {"goals", "assists", "clean_sheets"}
          ELSE {"clean_sheets", "saves"})

\* value_candidates[available_cols].round(2), for one row
ValuePick(row, pos) ==
    [f \in display_cols(pos) \cap DOMAIN row |->
        IF f = "fpl_score" THEN RoundHundredths(row[f])
        ELSE IF f \in {"value_metric", "gc_per_90"} THEN RoundUnits(row[f])
        ELSE row[f]]

\* value_picks[pos] of a position with candidates
PicksOf(df, min_apps, pos) ==
    LET candidates == NSmallest(value_candidates(pos_data(df, min_apps, pos), pos),
                                MostCandidates)
        shown == SubSeq(candidates, 1, Min(MostPicks, Len(candidates)))
    IN  [k \in 1..Len(shown) |-> ValuePick(shown[k], pos)]

\* identify_value_picks: one entry per position with candidates
value_picks(df, min_apps) ==
    LET Picked(pos) == /\ pos_data(df, min_apps, pos) # <<>>
                       /\ value_candidates(pos_data(df, min_apps, pos), pos) # <<>>
        positions == SelectSeq(ValuePositions, Picked)
    IN  [k \in 1..Len(positions) |->
            [position |-> positions[k], picks |-> PicksOf(df, min_apps, positions[k])]]

-----------------------------------------------------------------------------
(* Inputs *)

\* defaults set by LiveDraftTool.__init__
DefaultPosition == 7

DefaultTeams == 12

\* what the operator types at a setup question: nothing, a number, or something else
Blank == [kind |-> "blank", val |-> 0]

Junk == [kind |-> "junk", val |-> 0]

Number(i) == [kind |-> "int", val |-> i]

\* names typed after 'add' and 'myroster' (before lower-casing)
TypedNames == {"Harry Kane", "nick pope"}

\* names typed after 'compare' (before lower-casing)
TypedCompared == {"nick pope", "nobody"}

\* terms typed after 'search' (before lower-casing)
TypedTerms == {"Kane", "nick pope", "nobody"}

\* names passed by a direct caller of the methods
ApiNames == {"Harry Kane", "nick pope", "nobody"}

\* position words typed after 'suggest' and 'myroster' (after lower-casing)
TypedPositions == {"fw", "gk", "xx"}

\* lists of names passed to compare_players
CompareLists(names) == {<<a>> : a \in names} \cup {<<a, b>> : a \in names, b \in names}

\* names passed to FPLPlayerAnalyzer.add_taken_players
AnalyzerNames == {"Harry Kane", "Mohamed Salah"}

\* names passed to FPLPlayerAnalyzer.compare_players
AnalyzerCompared == {"Harry Kane", "Mohamed Salah", "nobody"}

\* the name typed for the i-th pick in the turn specification
PickName(i) == "pick " \o ToString(i)

-----------------------------------------------------------------------------
(* Initial states *)

InitLive ==
    /\ your_position = DefaultPosition
    /\ total_teams = DefaultTeams
    /\ taken_players = <<>>
    /\ your_roster = EmptyRoster
    /\ draft_info = NoStatus
    /\ output = NoOutput
    /\ analyzer_taken_players = <<>>
    /\ pre_draft_players_data = <<>>

Init ==
    /\ driver \in {"api", "analyzer"}
    /\ pc = "api"
    /\ InitLive
    /\ players_data \in IF driver = "analyzer" THEN {create_sample_data}
                        ELSE load_analysis_data
    /\ sample_data \in IF driver = "analyzer" THEN AnalyzerTables ELSE {load_sample_data}

\* an object of one of the three classes, about to be queried
InitQueries ==
    /\ driver \in {"api", "analyzer", "pre_draft"}
    /\ pc = IF driver = "pre_draft" THEN "fetched" ELSE "api"
    /\ your_position = DefaultPosition
    /\ total_teams = DefaultTeams
    /\ taken_players = <<>>
    /\ your_roster = EmptyRoster
    /\ draft_info = NoStatus
    /\ output = NoOutput
    /\ analyzer_taken_players = <<>>
    /\ players_data \in IF driver = "api" THEN load_analysis_data ELSE {create_sample_data}
    /\ sample_data \in IF driver = "analyzer" THEN AnalyzerTables ELSE {load_sample_data}
    /\ pre_draft_players_data \in IF driver = "pre_draft" THEN FetchedPools ELSE {<<>>}

\* a LiveDraftTool whose roster is about to be filled
InitRoster ==
    /\ driver = "api"
    /\ pc = "api"
    /\ InitLive
    /\ players_data = create_sample_data
    /\ sample_data = load_sample_data

\* main() of live_draft.py
InitCli ==
    /\ driver = "cli"
    /\ pc = "setup"
    /\ InitLive
    /\ players_data \in load_analysis_data
    /\ sample_data = load_sample_data

\* main() of live_draft.py with no analysis file in the directory
InitTurn ==
    /\ driver = "cli"
    /\ pc = "setup"
    /\ InitLive
    /\ players_data = create_sample_data
    /\ sample_data = load_sample_data

-----------------------------------------------------------------------------
(* run_interactive_mode *)

\* the setup questions: int() of a non-number raises ValueError, which ends the setup
SetupAnswers(your_pos, teams) ==
    /\ pc = "setup"
    /\ your_position' = IF your_pos.kind = "int" THEN your_pos.val ELSE your_position
    /\ total_teams' = IF your_pos.kind # "junk" /\ teams.kind = "int"
                      THEN teams.val ELSE total_teams
    /\ pc' = "prompt"
    /\ UNCHANGED <<driver, taken_players, your_roster, players_data, draft_info, output,
                   analyzer_vars, pre_draft_players_data>>

Setup ==
    \E answers \in {<<Blank, Blank>>, <<Junk, Blank>>, <<Number(2), Number(2)>>} :
        SetupAnswers(answers[1], answers[2])

SetupTurn ==
    \E your_pos \in {Blank, Junk} \cup {Number(i) : i \in 0..(MaxTeams + 1)},
       teams \in {Blank, Junk} \cup {Number(i) : i \in -1..MaxTeams} :
        SetupAnswers(your_pos, teams)

\* the top of the loop: the status for the prompt; an exception is printed and the
\* loop starts over
Prompt ==
    /\ pc = "prompt"
    /\ draft_info' = calculate_current_pick(taken_players, total_teams, your_position)
    /\ pc' = IF draft_info'.status = "ok" THEN "input" ELSE "prompt"
    /\ UNCHANGED <<driver, your_position, total_teams, taken_players, your_roster,
                   players_data, output, analyzer_vars, pre_draft_players_data>>

\* a command was read: after it the loop is back at its top
Command ==
    /\ pc = "input"
    /\ pc' = "prompt"
    /\ UNCHANGED <<driver, draft_info, analyzer_vars, pre_draft_players_data>>

CmdQuit ==
    /\ pc = "input"
    /\ pc' = "done"
    /\ UNCHANGED <<driver, your_position, total_teams, taken_players, your_roster,
                   players_data, draft_info, output, analyzer_vars,
                   pre_draft_players_data>>

CmdHelp ==
    /\ Command
    /\ output' = Out("quick_help", "", 0, "shown", "none", <<>>, <<>>, <<>>, NoStatus)
    /\ UNCHANGED <<taken_players, your_roster, players_data, your_position, total_teams>>

CmdStatus == Command /\ show_draft_status

CmdStrategy == Command /\ get_draft_strategy

CmdAdd ==
    \E typed \in TypedNames :
        /\ Lower(typed) \in Range(taken_players) \/ Len(taken_players) < MaxTaken
        /\ Command
        /\ add_taken_player(Lower(typed))

CmdAddTurn ==
    \E typed \in {PickName(Len(taken_players) + 1), PickName(Len(taken_players))} :
        /\ typed # PickName(0)
        /\ Lower(typed) \in Range(taken_players) \/ Len(taken_players) < MaxPicks
        /\ Command
        /\ add_taken_player(Lower(typed))

CmdSuggest ==
    \E word \in TypedPositions :
        /\ Command
        /\ IF Upper(word) \in Range(Positions)
           THEN suggest_players(Upper(word), DefaultSuggestions)
           ELSE /\ output' = Out("suggest usage", Upper(word), 0, "usage", "none",
                                 <<>>, <<>>, <<>>, NoStatus)
                /\ UNCHANGED <<taken_players, your_roster, players_data, your_position,
                               total_teams>>

CmdCompare ==
    \E typed \in CompareLists(TypedCompared) :
        /\ Command
        /\ compare_players([i \in 1..Len(typed) |-> Lower(typed[i])])

CmdSearch == \E typed \in TypedTerms : Command /\ search_player(Lower(typed))

CmdMyRoster ==
    \E typed \in {"nick pope"}, word \in {"gk", "xx"} :
        /\ Lower(typed) \in Range(taken_players) \/ Len(taken_players) < MaxTaken
        /\ Command
        /\ add_to_your_roster(Lower(typed), Upper(word))

\* an empty line prints nothing; any other text prints the 'unknown command' hint
CmdOther ==
    \E line \in {"empty", "unknown"} :
        /\ Command
        /\ output' = IF line = "empty" THEN output
                     ELSE Out("unknown command", "", 0, "hint", "none", <<>>, <<>>, <<>>,
                              NoStatus)
        /\ UNCHANGED <<taken_players, your_roster, players_data, your_position,
                       total_teams>>

-----------------------------------------------------------------------------
(* Direct calls of the LiveDraftTool methods *)

Call ==
    /\ pc = "api"
    /\ driver = "api"
    /\ UNCHANGED <<driver, pc, draft_info, analyzer_vars, pre_draft_players_data>>

ApiAddTakenPlayer ==
    \E name \in ApiNames :
        /\ name \in Range(taken_players) \/ Len(taken_players) < MaxTaken
        /\ Call
        /\ add_taken_player(name)

ApiGetAvailablePlayers ==
    \E position \in {"FW", "GK", "XX"}, n \in -1..MaxN :
        Call /\ call_get_available_players(position, n)

ApiAddToYourRoster ==
    \E name \in {"nick pope"}, position \in {"GK", "XX"} :
        /\ name \in Range(taken_players) \/ Len(taken_players) < MaxTaken
        /\ Call
        /\ add_to_your_roster(name, position)

\* positions passed to add_to_your_roster ("XX": none of the roster's)
RosterPositions == {"FW", "MF", "DF", "GK", "BENCH", "XX"}

\* names passed to add_to_your_roster
RosterNames == {"nick pope", "harry kane"}

\* add_to_your_roster for any position, while the bench is not longer than MaxBench;
\* one of the names any number of times, the other while it is not taken
RosterAdd ==
    \E name \in RosterNames, position \in RosterPositions :
        /\ position = "BENCH" => Len(your_roster.BENCH) < MaxBench
        /\ name = "harry kane" => name \notin Range(taken_players)
        /\ Call
        /\ add_to_your_roster(name, position)

\* get_draft_strategy with the roster as it is
RosterStrategy == Call /\ get_draft_strategy

-----------------------------------------------------------------------------
(* Direct calls of the FPLPlayerAnalyzer methods *)

AnalyzerCall ==
    /\ driver = "analyzer"
    /\ UNCHANGED <<driver, pc, your_position, total_teams, taken_players, your_roster,
                   players_data, draft_info, sample_data, pre_draft_players_data>>

add_taken_players ==
    \E players \in CompareLists(AnalyzerNames) :
        /\ Len(analyzer_taken_players) + Len(players) <= MaxTaken
        /\ AnalyzerCall
        /\ analyzer_taken_players' = TakenExtended(analyzer_taken_players, players)
        /\ output' = Out("add_taken_players", "", Len(players), "added", "added",
                         players, <<>>, <<>>, NoStatus)

\* the exclude_teams argument: omitted (None, which the method replaces by []) or a list
ExcludeTeamsArgs ==
    {[given |-> FALSE, teams |-> <<>>], [given |-> TRUE, teams |-> <<>>],
     [given |-> TRUE, teams |-> <<"Liverpool">>]}

AnalyzerSuggestPlayers ==
    \E position \in {"FW", "GK"}, n \in -1..MaxN,
       exclude_teams \in {IF a.given THEN a.teams ELSE <<>> : a \in ExcludeTeamsArgs} :
        /\ AnalyzerCall
        /\ output' = [Out("FPLPlayerAnalyzer.suggest_players", position, n,
                          IF AvailablePlayers(sample_data, analyzer_taken_players,
                                              position, exclude_teams) = <<>>
                          THEN "none available" ELSE "ok",
                          "none",
                          analyzer_suggest_players(sample_data, analyzer_taken_players,
                                                   position, n, exclude_teams),
                          <<>>, <<>>, NoStatus)
                      EXCEPT !.exclude_teams = exclude_teams]
        /\ UNCHANGED analyzer_taken_players

\* calculate_fpl_score(player_data, position) called on the object, with a row of
\* the table or with that row less its games_played; self.position_weights[position]
\* raises KeyError for a position the table of weights does not have
AnalyzerCalculateFplScore ==
    \E i \in 1..Len(sample_data), position \in {"FW", "GK", "XX"},
       columns \in {"all", "no games_played"} :
        LET player_data == IF columns = "all" THEN sample_data[i]
                           ELSE WithoutColumn(sample_data[i], "games_played")
        IN  /\ AnalyzerCall
            /\ output' = Out("calculate_fpl_score", position, i,
                             IF position \in DOMAIN position_weights
                             THEN "returned" ELSE "KeyError",
                             "none",
                             IF position \in DOMAIN position_weights
                             THEN <<[player_data |-> player_data,
                                     fpl_score |-> calculate_fpl_score(player_data,
                                                                       position)]>>
                             ELSE <<>>,
                             <<>>, <<>>, NoStatus)
            /\ UNCHANGED analyzer_taken_players

AnalyzerComparePlayers ==
    \E player_names \in CompareLists(AnalyzerCompared) :
        /\ AnalyzerCall
        /\ output' = [Out("FPLPlayerAnalyzer.compare_players", "", Len(player_names),
                          IF ComparisonPlayers(sample_data, player_names) = <<>>
                          THEN "no players found" ELSE "compared",
                          "none",
                          analyzer_compare_players(sample_data, player_names),
                          <<>>, <<>>, NoStatus)
                      EXCEPT !.requested = player_names]
        /\ UNCHANGED analyzer_taken_players

ApiComparePlayers ==
    \E player_names \in CompareLists(ApiNames) : Call /\ compare_players(player_names)

-----------------------------------------------------------------------------
(* Direct calls of the PreDraftAnalyzer methods *)

PreDraftCall ==
    /\ driver = "pre_draft"
    /\ UNCHANGED <<driver, your_position, total_teams, taken_players, your_roster,
                   players_data, draft_info, analyzer_vars>>

\* calculate_fpl_scores: nothing for an empty table, else the fpl_score column
calculate_fpl_scores ==
    /\ PreDraftCall
    /\ pc = "fetched"
    /\ IF pre_draft_players_data = <<>>
       THEN /\ output' = Out("calculate_fpl_scores", "", 0, "no player data", "none",
                             <<>>, <<>>, <<>>, NoStatus)
            /\ UNCHANGED <<pc, pre_draft_players_data>>
       ELSE /\ pre_draft_players_data' =
                   [i \in 1..Len(pre_draft_players_data) |->
                       Scored(pre_draft_players_data[i])]
            /\ pc' = "scored"
            /\ output' = Out("calculate_fpl_scores", "", 0, "scored", "none",
                             <<>>, <<>>, <<>>, NoStatus)

\* default of min_apps
DefaultMinApps == 15

MinApps == {DefaultMinApps, ProjectedGames \div 2 + 1}

\* identify_value_picks: a KeyError for a table without 'apps', or without
\* 'fpl_score' when a position has eligible rows
identify_value_picks ==
    /\ PreDraftCall
    /\ pc \in {"fetched", "scored"}
    /\ UNCHANGED <<pc, pre_draft_players_data>>
    /\ \E min_apps \in MinApps :
        LET df == pre_draft_players_data
            NoApps == df = <<>> \/ \E i \in 1..Len(df) : "apps" \notin DOMAIN df[i]
            NoScore == \E i \in 1..Len(df) :
                           /\ df[i].apps >= min_apps
                           /\ df[i].position \in Range(ValuePositions)
                           /\ "fpl_score" \notin DOMAIN df[i]
        IN  IF NoApps \/ NoScore
            THEN output' = Out("identify_value_picks", "", min_apps, "KeyError", "none",
                              <<>>, <<>>, <<>>, NoStatus)
            ELSE output' = Out("identify_value_picks", "", min_apps, "returned", "none",
                              value_picks(df, min_apps), <<>>, <<>>, NoStatus)

-----------------------------------------------------------------------------
(* Specifications *)

Next ==
    \/ ApiAddTakenPlayer \/ ApiGetAvailablePlayers \/ ApiAddToYourRoster
    \/ add_taken_players \/ AnalyzerSuggestPlayers

\* the objects whose methods are called directly
Spec == Init /\ [][Next]_vars

NextCli ==
    \/ Setup \/ Prompt
    \/ CmdQuit \/ CmdHelp \/ CmdStatus \/ CmdStrategy \/ CmdAdd \/ CmdSuggest
    \/ CmdCompare \/ CmdSearch \/ CmdMyRoster \/ CmdOther

\* the interactive tool
SpecCli == InitCli /\ [][NextCli]_vars

NextTurn ==
    \/ SetupTurn \/ Prompt \/ CmdAddTurn \/ CmdQuit

\* the interactive tool with any setup answers, followed over MaxPicks picks
SpecTurn == InitTurn /\ [][NextTurn]_vars

\* the same, the loop of run_interactive_mode going on whenever it is at its top
SpecTurnLive == InitTurn /\ [][NextTurn]_vars /\ WF_vars(Prompt)

NextQueries ==
    \/ AnalyzerCalculateFplScore \/ AnalyzerSuggestPlayers \/ AnalyzerComparePlayers
    \/ ApiComparePlayers
    \/ calculate_fpl_scores \/ identify_value_picks

\* the methods that compute a result from the object's data
SpecQueries == InitQueries /\ [][NextQueries]_vars

NextRoster == RosterAdd \/ RosterStrategy

\* the roster of a LiveDraftTool, filled in any order
SpecRoster == InitRoster /\ [][NextRoster]_vars

-----------------------------------------------------------------------------
(* The turn calculation (checked under SpecTurn) *)

\* the status in draft_info was computed from the present taken list
AtPrompt == pc = "input" /\ draft_info.status = "ok"

ValidConfig == total_teams >= 1 /\ your_position \in 1..total_teams

\* C1: for picksMade >= 0 and N >= 1 the round is floor(picksMade / N) + 1, and the
\* current picker is pickInRound in an odd round and N - pickInRound + 1 in an even
\* round, where pickInRound = (picksMade mod N) + 1; for N = 12: 0 picks -> slot 1 of
\* round 1, 11 -> slot 12 of round 1, 12 -> slot 12 of round 2, 23 -> slot 1 of round 2.
C1_SnakeOrder ==
    (AtPrompt /\ total_teams >= 1) =>
        LET picksMade == Len(taken_players)
            N == total_teams
            round == draft_info.current_round
            pickInRound == picksMade - (round - 1) * N + 1
        IN  /\ draft_info.total_picks_made = picksMade
            /\ (round - 1) * N <= picksMade /\ picksMade < round * N
            /\ draft_info.current_picker =
                   IF round % 2 = 1 THEN pickInRound ELSE N - pickInRound + 1
            /\ (N = 12 /\ picksMade = 0) =>
                   draft_info.current_picker = 1 /\ round = 1
            /\ (N = 12 /\ picksMade = 11) =>
                   draft_info.current_picker = 12 /\ round = 1
            /\ (N = 12 /\ picksMade = 12) =>
                   draft_info.current_picker = 12 /\ round = 2
            /\ (N = 12 /\ picksMade = 23) =>
                   draft_info.current_picker = 1 /\ round = 2

\* C1 witness: twelve teams, twelve picks made: the second round opens with slot 12
C1_Witness ==
    /\ AtPrompt /\ total_teams = 12 /\ Len(taken_players) = 12
    /\ draft_info.current_round = 2 /\ draft_info.current_picker = 12

\* C2: with a valid setup, picks_until_yours = k is the exact distance to the user's
\* next turn: the picker after k further picks is the user's slot, and the picker
\* after any j < k further picks is not.
C2_ExactDistance ==
    (AtPrompt /\ ValidConfig) =>
        LET k == draft_info.picks_until_yours
        IN  /\ k >= 0
            /\ \A j \in 0..k :
                   (CurrentPicker(Len(taken_players) + j, total_teams) = your_position)
                       <=> (j = k)

\* C2 witness: an even round in which the user's slot has already picked, so the
\* count runs into the next round
C2_Witness ==
    /\ AtPrompt /\ ValidConfig
    /\ draft_info.current_round % 2 = 0
    /\ draft_info.current_picker < your_position
    /\ draft_info.picks_until_yours > total_teams

\* C3 as stated: 12 teams, slot 7: after 6 picks picks_until_yours is 0, after 7
\* picks it is 11.
C3_AsStated ==
    (AtPrompt /\ total_teams = 12 /\ your_position = 7) =>
        /\ Len(taken_players) = 6 => draft_info.picks_until_yours = 0
        /\ Len(taken_players) = 7 => draft_info.picks_until_yours = 11

\* C3 amended: 12 teams, slot 7: after 6 picks picks_until_yours is 0, after 7 picks
\* it is 10 (slots 8..12 of round 1, then 12..8 of round 2 pick before slot 7 does).
C3_Scenario ==
    (AtPrompt /\ total_teams = 12 /\ your_position = 7) =>
        /\ Len(taken_players) = 6 => draft_info.picks_until_yours = 0
        /\ Len(taken_players) = 7 => draft_info.picks_until_yours = 10

\* C3 witness: the state of the scenario after 7 picks, slot 8 picking
C3_Witness ==
    /\ AtPrompt /\ total_teams = 12 /\ your_position = 7
    /\ Len(taken_players) = 7 /\ draft_info.current_picker = 8

\* C4: with a valid setup picks_until_yours is never negative, and it is 0 exactly
\* when the current picker is the user's slot.
C4_ZeroIffYourTurn ==
    (AtPrompt /\ ValidConfig) =>
        /\ draft_info.picks_until_yours >= 0
        /\ (draft_info.picks_until_yours = 0)
               <=> (draft_info.current_picker = your_position)

\* C4 witness: the user's turn in an even round
C4_Witness ==
    /\ AtPrompt /\ ValidConfig
    /\ draft_info.current_round % 2 = 0
    /\ draft_info.current_picker = your_position
    /\ draft_info.picks_until_yours = 0

\* C5: with total_teams <= 0 or your_position outside 1..total_teams the turn
\* calculation returns an error outcome, neither numbers computed from those values
\* nor an arithmetic fault.
C5_InvalidConfigIsAnError ==
    (draft_info.status # "none" /\ ~ValidConfig) => draft_info.status = "ConfigError"

-----------------------------------------------------------------------------
(* The taken list and the rankings *)

\* C6: marking an identifier that is already taken leaves the size of the taken list
\* unchanged and gives the 'already taken' signal; marking an absent identifier
\* makes the list one longer; for add_taken_player and for add_taken_players (each
\* name of its list being one mark).
C6_MarkTakenIdempotent ==
    [][/\ output'.op = "add_taken_player" =>
            IF output'.arg \in Range(taken_players)
            THEN /\ Len(taken_players') = Len(taken_players)
                 /\ output'.taken_signal = "already taken"
            ELSE Len(taken_players') = Len(taken_players) + 1
       /\ output'.op = "add_taken_players" =>
            /\ Len(analyzer_taken_players') =
                   Len(analyzer_taken_players)
                   + Cardinality(Range(output'.rows) \ Range(analyzer_taken_players))
            /\ (\E i \in 1..Len(output'.rows) :
                    \/ output'.rows[i] \in Range(analyzer_taken_players)
                    \/ \E j \in 1..(i - 1) : output'.rows[j] = output'.rows[i])
                   => output'.taken_signal = "already taken"
      ]_vars

\* C7: the taken list only grows: every command leaves the names already taken in
\* the list (in their places), and the rows a search, a comparison or a suggestion
\* shows after a mark reflect that mark.
C7_TakenOnlyGrows ==
    [][/\ Len(taken_players') >= Len(taken_players)
       /\ SubSeq(taken_players', 1, Len(taken_players)) = taken_players
       /\ output'.op \in {"search_player", "compare_players"} =>
            \A i \in 1..Len(output'.rows) :
                output'.rows[i].taken = (output'.rows[i].name \in Range(taken_players'))
       /\ output'.op = "suggest_players" =>
            \A i \in 1..Len(output'.rows) :
                output'.rows[i].name \notin Range(taken_players')
      ]_vars

\* C7 witness: a search issued after two marks shows a marked player as taken
C7_Witness ==
    /\ Len(taken_players) = 2
    /\ output.op = "search_player"
    /\ \E i \in 1..Len(output.rows) : output.rows[i].taken

\* C8: a ranking of available players never holds a record whose identifier is in
\* the taken list, for get_available_players and for FPLPlayerAnalyzer.suggest_players.
C8_RankingExcludesTaken ==
    /\ output.op = "get_available_players" =>
           \A i \in 1..Len(output.rows) : output.rows[i].name \notin Range(taken_players)
    /\ output.op = "FPLPlayerAnalyzer.suggest_players" =>
           \A i \in 1..Len(output.rows) :
               output.rows[i].player \notin Range(analyzer_taken_players)

\* C8 witness: on the sample table two forwards are marked taken, and the ranking of
\* forwards then lists another forward
C8_Witness ==
    /\ sample_data = load_sample_data
    /\ Range(analyzer_taken_players) = {"Harry Kane", "Mohamed Salah"}
    /\ output.op = "FPLPlayerAnalyzer.suggest_players"
    /\ output.arg = "FW"
    /\ output.rows # <<>>

\* C9: a ranking holds at most n records, and none when n <= 0 (negative n
\* included), for get_available_players and for FPLPlayerAnalyzer.suggest_players.
C9_AtMostN ==
    output.op \in {"get_available_players", "FPLPlayerAnalyzer.suggest_players"} =>
        Len(output.rows) <= Max(output.n, 0)

\* the eligible records the last ranking was taken from, and their scores as fractions
RankedFrom ==
    IF output.op = "get_available_players"
    THEN IF output.arg \in DOMAIN players_data
         THEN [i \in 1..Len(Available(players_data, taken_players, output.arg)) |->
                  Rational(Available(players_data, taken_players, output.arg)[i].fpl_score,
                           1)]
         ELSE <<>>
    ELSE [i \in 1..Len(AvailablePlayers(sample_data, analyzer_taken_players, output.arg,
                                        output.exclude_teams)) |->
             AvailablePlayers(sample_data, analyzer_taken_players, output.arg,
                              output.exclude_teams)[i].fpl_score]

RankedScores ==
    IF output.op = "get_available_players"
    THEN [i \in 1..Len(output.rows) |-> Rational(output.rows[i].fpl_score, 1)]
    ELSE [i \in 1..Len(output.rows) |-> output.rows[i].fpl_score]

-----------------------------------------------------------------------------
(* Ties, positions and excluded teams in FPLPlayerAnalyzer.suggest_players *)

\* the eligible rows the analyzer's last ranking was taken from, in load order
Eligible ==
    AvailablePlayers(sample_data, analyzer_taken_players, output.arg, output.exclude_teams)

\* the place in Eligible of the row about a player (players are listed once)
LoadIndex(player) == CHOOSE i \in 1..Len(Eligible) : Eligible[i].player = player

\* C11: of two eligible records with equal scores the ranking places the one loaded
\* earlier first, and when the cut at n falls inside a group of equal scores the
\* records kept are the earlier-loaded ones of the group.
C11_TiesKeepLoadOrder ==
    output.op = "FPLPlayerAnalyzer.suggest_players" =>
        /\ \A i, j \in 1..Len(output.rows) :
               (i < j /\ RatEqual(output.rows[i].fpl_score, output.rows[j].fpl_score))
                   => LoadIndex(output.rows[i].player) < LoadIndex(output.rows[j].player)
        /\ \A e \in 1..Len(Eligible), i \in 1..Len(output.rows) :
               (/\ \A k \in 1..Len(output.rows) : output.rows[k].player # Eligible[e].player
                /\ RatEqual(Eligible[e].fpl_score, output.rows[i].fpl_score))
                   => LoadIndex(output.rows[i].player) < e

\* C11 witness: two eligible records have the same score, a ranking of one record
\* was asked for, and the record loaded first is the one returned
C11_Witness ==
    /\ output.op = "FPLPlayerAnalyzer.suggest_players"
    /\ output.n = 1 /\ Len(output.rows) = 1
    /\ Len(Eligible) >= 2
    /\ RatEqual(Eligible[1].fpl_score, Eligible[2].fpl_score)
    /\ output.rows[1].player = Eligible[1].player

\* the rows of the table that are of the ranked position and not taken
OfPositionNotTaken ==
    {i \in 1..Len(sample_data) :
        /\ sample_data[i].position = output.arg
        /\ sample_data[i].player \notin Range(analyzer_taken_players)}

\* C12: a ranking for a position holds only records of that position and no record
\* whose team is in exclude_teams; with exclude_teams empty or omitted no record is
\* left out on account of its team (the ranking is as long as n and the untaken
\* records of the position allow).
C12_PositionAndExcludedTeams ==
    output.op = "FPLPlayerAnalyzer.suggest_players" =>
        /\ \A i \in 1..Len(output.rows) :
               /\ output.rows[i].position = output.arg
               /\ output.rows[i].team \notin Range(output.exclude_teams)
        /\ output.exclude_teams = <<>> =>
               Len(output.rows) = Min(Max(output.n, 0), Cardinality(OfPositionNotTaken))

\* C12 witness: Liverpool is excluded, the table holds an untaken Liverpool forward
\* and a forward of another team, and the ranking of forwards is not empty
C12_Witness ==
    /\ output.op = "FPLPlayerAnalyzer.suggest_players"
    /\ output.arg = "FW"
    /\ output.exclude_teams = <<"Liverpool">>
    /\ \E i \in OfPositionNotTaken : sample_data[i].team = "Liverpool"
    /\ output.rows # <<>>

-----------------------------------------------------------------------------
(* Scoring (checked under SpecQueries) *)

\* calculate_fpl_score has returned a score for the row in output
ScoreReturned == output.op = "calculate_fpl_score" /\ output.signal = "returned"

\* calculate_fpl_scores has filled the fpl_score column of the pool
PoolScored == driver = "pre_draft" /\ pc = "scored"

KnownPosition(row) == row.position \in Range(Positions)

\* C13: for a record with games played > 0 and a known position the score is
\* rawSum * 38 / gamesPlayed (score * gamesPlayed = rawSum * 38), rawSum being the sum
\* of count * weight over the statistics the record and the position's weights share;
\* for calculate_fpl_score ('games_played') and for calc_score ('apps').
C13_ScoreRescaled ==
    /\ ScoreReturned =>
           LET player_data == output.rows[1].player_data
               score == output.rows[1].fpl_score
           IN  ("games_played" \in DOMAIN player_data /\ player_data.games_played > 0) =>
                   score.num * player_data.games_played
                       = RawScore(player_data, output.arg) * 38 * score.den
    /\ PoolScored =>
           \A i \in 1..Len(pre_draft_players_data) :
               LET row == pre_draft_players_data[i]
               IN  (KnownPosition(row) /\ "apps" \in DOMAIN row /\ row.apps > 0) =>
                       row.fpl_score.num * row.apps
                           = PreDraftRawScore(row) * 38 * row.fpl_score.den

\* C13 witness: the pool holds a scored player of a known position with 19
\* appearances and a positive raw sum
C13_Witness ==
    /\ PoolScored
    /\ \E i \in 1..Len(pre_draft_players_data) :
           /\ KnownPosition(pre_draft_players_data[i])
           /\ "apps" \in DOMAIN pre_draft_players_data[i]
           /\ pre_draft_players_data[i].apps = 19
           /\ PreDraftRawScore(pre_draft_players_data[i]) > 0

\* C14: for a record whose games-played count is zero or absent the score is exactly
\* the raw weighted sum; for calculate_fpl_score ('games_played') and for calc_score
\* ('apps').
C14_NoGamesNoRescaling ==
    /\ ScoreReturned =>
           LET player_data == output.rows[1].player_data
               score == output.rows[1].fpl_score
           IN  ("games_played" \notin DOMAIN player_data \/ player_data.games_played = 0)
                   => score.num = RawScore(player_data, output.arg) * score.den
    /\ PoolScored =>
           \A i \in 1..Len(pre_draft_players_data) :
               LET row == pre_draft_players_data[i]
               IN  (KnownPosition(row) /\ ("apps" \notin DOMAIN row \/ row.apps = 0)) =>
                       row.fpl_score.num = PreDraftRawScore(row) * row.fpl_score.den

\* C15: scoring a record with a position that is none of the four known ones gives
\* a scoring-error outcome: not an uncaught exception, and not an ordinary score.
C15_UnknownPositionIsAnError ==
    /\ (output.op = "calculate_fpl_score" /\ output.arg \notin Range(Positions))
           => output.signal = "ScoringError"
    /\ (PoolScored /\ output.op = "calculate_fpl_scores"
        /\ \E i \in 1..Len(pre_draft_players_data) :
               ~KnownPosition(pre_draft_players_data[i]))
           => output.signal = "ScoringError"

-----------------------------------------------------------------------------
(* Per-game rates and comparisons (checked under SpecQueries) *)

\* the row of the analyzer's table about a player
TableRow(player) ==
    sample_data[CHOOSE i \in 1..Len(sample_data) : sample_data[i].player = player]

\* rate is count / games for games > 0, and the value 'undefined' for games = 0
RateReported(rate, count, games) ==
    IF games = 0 THEN rate.kind = "undefined"
    ELSE rate.kind = "finite" /\ rate.num * games = count * rate.den

Resolved ==
    LET Match(name) ==
            IF output.op = "compare_players"
            THEN FirstMatchPos(players_data, name) # 0
            ELSE \E i \in 1..Len(sample_data) : sample_data[i].player = name
    IN  SelectSeq(output.requested, Match)

\* C17: compare reports every requested identifier that matches no record as 'not
\* found', goes on with the other identifiers, and gives an 'insufficient players'
\* result in place of a comparison when fewer than two requested identifiers match a
\* record; for LiveDraftTool.compare_players and FPLPlayerAnalyzer.compare_players.
C17_NotFoundAndInsufficient ==
    output.op \in {"compare_players", "FPLPlayerAnalyzer.compare_players"} =>
        /\ \A i \in 1..Len(output.requested) :
               output.requested[i] \notin Range(Resolved)
                   => output.requested[i] \in Range(output.not_found)
        /\ IF Len(Resolved) < 2
           THEN output.signal = "need at least 2" /\ output.rows = <<>>
           ELSE output.signal = "compared" /\ output.rows # <<>>

\* identify_value_picks has returned its value picks
PicksReturned == output.op = "identify_value_picks" /\ output.signal = "returned"

\* the fetched record of a player
PoolRow(name) ==
    pre_draft_players_data[CHOOSE i \in 1..Len(pre_draft_players_data) :
                               pre_draft_players_data[i].name = name]

\* the records of a position with at least the requested number of games played
EligibleSet(pos) ==
    LET Kept(row) == row.apps >= output.n /\ row.position = pos
    IN  SelectSeq(pre_draft_players_data, Kept)

\* C18: no value pick has a score at or above the 80th percentile of the scores of
\* the eligible records of its position (those with games played >= min_apps); the
\* highest-scoring eligible record is never a value pick; a position whose eligible
\* records are one record, or all of the same score, has no value picks.
C18_PicksUnderScorePercentile ==
    PicksReturned =>
        /\ \A e \in 1..Len(output.rows) : \A k \in 1..Len(output.rows[e].picks) :
               LET scores == Column(EligibleSet(output.rows[e].position), "fpl_score")
                   score  == PoolRow(output.rows[e].picks[k].name).fpl_score
               IN  /\ RatLess(score, Quantile(scores, ScoreQuantile))
                   /\ \E i \in 1..Len(scores) : RatLess(score, scores[i])
        /\ \A pos \in Range(ValuePositions) :
               LET scores == Column(EligibleSet(pos), "fpl_score")
               IN  (\A i, j \in 1..Len(scores) : RatEqual(scores[i], scores[j]))
                       => \A e \in 1..Len(output.rows) : output.rows[e].position # pos

\* value picks out of three eligible forwards, one of them of good metric and a
\* score too high to be picked
C18_Witness ==
    /\ PicksReturned
    /\ \E e \in 1..Len(output.rows) :
           LET t == pos_data(pre_draft_players_data, output.n, output.rows[e].position)
           IN  /\ output.rows[e].picks # <<>>
               /\ Len(t) >= 3
               /\ Len(value_candidates_any_score(t, output.rows[e].position))
                      > Len(output.rows[e].picks)

\* the eligible records of a position that qualify as value picks: value metric at
\* or above the percentile of the position, score under the 80th percentile
Qualifying(pos) ==
    LET t == EligibleSet(pos)
        metrics == [i \in 1..Len(t) |-> value_metric(t[i], pos)]
        Good(row) ==
            /\ ~RatLess(value_metric(row, pos),
                        Quantile(metrics, IF pos \in {"FW", "MF"} THEN 7 ELSE 6))
            /\ RatLess(row.fpl_score, Quantile(Column(t, "fpl_score"), 8))
    IN  SelectSeq(t, Good)

Quota == [FW |-> 2, MF |-> 5, DF |-> 3, GK |-> 1]

\* what a call of add_to_your_roster with output'.arg and output'.position does
RosterStep ==
    LET name     == output'.arg
        position == output'.position
    IN  IF position \in DOMAIN Quota /\ Len(your_roster[position]) >= Quota[position]
        THEN /\ output'.signal = "full"
             /\ UNCHANGED <<your_roster, taken_players>>
        ELSE IF position \in DOMAIN your_roster
        THEN /\ output'.signal = "added"
             /\ your_roster' = [your_roster EXCEPT ![position] = Append(@, name)]
             /\ name \in Range(taken_players')
             /\ taken_players' \in {taken_players, Append(taken_players, name)}
        ELSE /\ output'.signal = "invalid position"
             /\ UNCHANGED <<your_roster, taken_players>>

\* C20: in every reachable state the roster holds at most 2 FW, 5 MF, 3 DF and 1 GK;
\* add_to_your_roster rejects an addition to one of these positions that is at its
\* required count, and otherwise (a position of the roster) appends the name and
\* marks it taken.
C20_RosterWithinQuota ==
    /\ [](\A position \in DOMAIN Quota : Len(your_roster[position]) <= Quota[position])
    /\ [][output'.op = "add_to_your_roster" => RosterStep]_vars

\* an addition to the full midfield rejected, the bench being longer than required
C20_Witness ==
    /\ output.op = "add_to_your_roster"
    /\ output.position = "MF"
    /\ output.signal = "full"
    /\ Len(your_roster.MF) = 5
    /\ Len(your_roster.BENCH) > roster_requirements.BENCH
    /\ "nick pope" \in Range(taken_players)

\* the (position, place) pairs of the roster
RosterSlots ==
    UNION {{<<position, k>> : k \in 1..Len(your_roster[position])} :
              position \in DOMAIN your_roster}

\* C21: in every reachable state a name is in at most one roster slot: no name is
\* twice in the list of one position, and none is in the lists of two positions
\* (BENCH included).
C21_OneSlotPerName ==
    \A a, b \in RosterSlots :
        your_roster[a[1]][a[2]] = your_roster[b[1]][b[2]] => a = b

\* the last step was a call of add_to_your_roster, rejected or not
RosterCalled == output'.op = "add_to_your_roster"

RosterRejected == output'.signal \in {"full", "invalid position"}

\* the turn state the taken list gives
TurnState(taken) == calculate_current_pick(taken, total_teams, your_position)

\* C22 as stated: a rejected add_to_your_roster leaves the roster, the taken list
\* and the turn state as they were, and no call changes the roster without changing
\* the taken list, or the taken list without changing the roster.
C22_AsStated ==
    [][RosterCalled =>
          /\ RosterRejected =>
                 /\ UNCHANGED <<your_roster, taken_players>>
                 /\ TurnState(taken_players') = TurnState(taken_players)
          /\ (your_roster' # your_roster) <=> (taken_players' # taken_players)]_vars

\* C22: a rejected add_to_your_roster (unknown position, or a position other than
\* the bench at its required count) leaves the roster, the taken list and the turn
\* state as they were; a call that is not rejected changes the roster and leaves the
\* name in the taken list, which changes only if the name was not in it; no call
\* changes the taken list without changing the roster.
C22_AllOrNothing ==
    [][RosterCalled =>
          /\ RosterRejected =>
                 /\ UNCHANGED <<your_roster, taken_players>>
                 /\ TurnState(taken_players') = TurnState(taken_players)
          /\ ~RosterRejected =>
                 /\ your_roster' # your_roster
                 /\ output'.arg \in Range(taken_players')
                 /\ (taken_players' # taken_players) <=>
                        (output'.arg \notin Range(taken_players))
          /\ (taken_players' # taken_players) => (your_roster' # your_roster)]_vars

\* an addition to the full GK position rejected, another name being taken as well
C22_Witness ==
    /\ output.op = "add_to_your_roster"
    /\ output.signal = "full"
    /\ output.position = "GK"
    /\ your_roster.GK = <<"nick pope">>
    /\ Len(taken_players) = 2

\* the entries of the needs view about a position
NeedsOf(position) ==
    {k \in 1..Len(output.needs) : output.needs[k].position = position}

\* C23: the needs view of get_draft_strategy has, for each of FW, MF, DF and GK,
\* one entry with max(required - current, 0) when that is positive and no entry
\* when it is zero, and never an entry for BENCH.
C23_NeedsView ==
    output.op = "get_draft_strategy" =>
        /\ \A position \in DOMAIN Quota :
               LET short == Max(Quota[position] - Len(your_roster[position]), 0)
               IN  IF short > 0
                   THEN /\ Cardinality(NeedsOf(position)) = 1
                        /\ \A k \in NeedsOf(position) : output.needs[k].needed = short
                   ELSE NeedsOf(position) = {}
        /\ \A k \in 1..Len(output.needs) : output.needs[k].position \in DOMAIN Quota

\* the view of a roster with a full GK position, a forward missing and a bench
\* shorter than required
C23_Witness ==
    /\ output.op = "get_draft_strategy"
    /\ Len(your_roster.GK) = 1
    /\ Len(your_roster.FW) = 1
    /\ Len(your_roster.BENCH) = 1
    /\ Len(output.needs) = 3

\* the (position, row) places of the pool the live tool has loaded
PoolPlaces ==
    UNION {{<<position, k>> : k \in 1..Len(players_data[position])} :
              position \in DOMAIN players_data}

\* C24: the identifiers of the loaded pool are unique in every state: a table with
\* two records of the same identifier is never what a load leaves in the pool (such
\* a load is rejected and the pool stays as it was), in the live tool and in
\* PreDraftAnalyzer.
C24_UniqueIdentifiers ==
    /\ \A a, b \in PoolPlaces :
           players_data[a[1]][a[2]].name = players_data[b[1]][b[2]].name => a = b
    /\ \A i, j \in 1..Len(pre_draft_players_data) :
           pre_draft_players_data[i].name = pre_draft_players_data[j].name => i = j

\* what a statistic adds to the raw score: count * weight when the record has the
\* statistic and the weight table has it, else nothing
Contribution(row, weights, stat) ==
    IF stat \in DOMAIN row /\ stat \in DOMAIN weights THEN row[stat] * weights[stat]
    ELSE 0

RECURSIVE SumOfContributions(_, _, _)
SumOfContributions(row, weights, stats) ==
    IF stats = {} THEN 0
    ELSE LET stat == CHOOSE x \in stats : TRUE
         IN  Contribution(row, weights, stat)
                 + SumOfContributions(row, weights, stats \ {stat})

\* the raw score of a record under a weight table (hundredths)
ExpectedRawScore(row, weights) ==
    SumOfContributions(row, weights, DOMAIN row \cup DOMAIN weights)

\* a record scored without rescaling: no games column, or a full season played
Unscaled(row, games) == games \notin DOMAIN row \/ row[games] = FullSeason

\* C25: the raw score of a record at a position is the sum of count * weight over
\* the statistics that are both in the record and in the weight table of the
\* position; a statistic only in the record, or only in the weight table, adds
\* nothing and is no error. Read off the scores that are not rescaled, for
\* calculate_fpl_score and for calc_score.
C25_RawScoreOverSharedStatistics ==
    /\ ScoreReturned =>
           LET r == output.rows[1]
           IN  Unscaled(r.player_data, "games_played") =>
                   RatEqual(r.fpl_score,
                            Rational(ExpectedRawScore(r.player_data,
                                                      position_weights[output.arg]), 1))
    /\ PoolScored =>
           \A i \in 1..Len(pre_draft_players_data) :
               LET row == pre_draft_players_data[i]
               IN  (KnownPosition(row) /\ "apps" \in DOMAIN row /\ row.apps = FullSeason)
                       => RatEqual(row.fpl_score,
                                   Rational(ExpectedRawScore(
                                       WithoutColumn(row, "fpl_score"),
                                       pre_draft_position_weights[row.position]), 1))

\* a forward of the sample table scored as a goalkeeper, without the games column:
\* the record has statistics the GK table does not weigh, and lacks some it weighs
C25_Witness ==
    /\ ScoreReturned
    /\ output.arg = "GK"
    /\ LET row == output.rows[1].player_data
       IN  /\ "games_played" \notin DOMAIN row
           /\ row.player = "Harry Kane"
           /\ row.minutes_played > 0
           /\ DOMAIN row \ DOMAIN position_weights.GK # {}
           /\ DOMAIN position_weights.GK \ DOMAIN row # {}
           /\ output.rows[1].fpl_score.num > 0

\* the name was typed after 'add' as it is in the pool: the loop has lower-cased the
\* line and add_taken_player has stored the result
AddedAsTyped(name) == Lower(name) \in Range(taken_players)

\* C26: after 'add <name>', the name typed as it is in the loaded pool, the player
\* is not among the players suggest lists for its position, and compare and search
\* show it as taken.
C26_AddedPlayerIsTaken ==
    \A place \in PoolPlaces :
        LET name == players_data[place[1]][place[2]].name
        IN  AddedAsTyped(name) =>
                /\ (output.op = "suggest_players" /\ output.arg = place[1]) =>
                       \A i \in 1..Len(output.rows) : output.rows[i].name # name
                /\ output.op \in {"compare_players", "search_player"} =>
                       \A i \in 1..Len(output.rows) :
                           output.rows[i].name = name => output.rows[i].taken

\* the names in the roster
RosterNamesHeld == {your_roster[slot[1]][slot[2]] : slot \in RosterSlots}

\* C27: in every reachable state every name in the roster (BENCH included) is in the
\* taken list, so the number of picks made is at least the number of distinct
\* players in the roster.
C27_RosterIsTaken ==
    /\ RosterNamesHeld \subseteq Range(taken_players)
    /\ Cardinality(RosterNamesHeld) <= Len(taken_players)

\* two players in the roster, one of them on the bench
C27_Witness ==
    /\ Cardinality(RosterNamesHeld) = 2
    /\ your_roster.BENCH # <<>>
    /\ your_roster.FW # <<>>
    /\ output.op = "add_to_your_roster"
    /\ output.signal = "added"

\* C28: whatever was entered at setup, every iteration of the command loop that
\* starts reaches the input prompt, where a command (and so 'quit') is read: the loop
\* never goes round forever without reading input.
C28_LoopReadsInput == (pc = "prompt") ~> (pc = "input")

\* a new player is marked taken at the prompt: draft_info is the status before the
\* pick, output'.status the one add_taken_player prints after it
NewPick ==
    /\ AtPrompt
    /\ total_teams >= 1
    /\ output'.op = "add_taken_player"
    /\ output'.signal = "added"
    /\ Len(taken_players') = Len(taken_players) + 1

\* C29: as players are marked taken one at a time the current pickers form a
\* snake: the picker is always one of the slots 1..N; a round opens (picks made a
\* multiple of N) at slot 1 when its number is odd and at slot N when it is even;
\* a pick moves the picker by one slot in the direction of the round, or ends the
\* round, and then the round number grows by one and the picker stays (the last
\* picker of a round is the first of the next); so each slot picks once per round.
C29_SnakeSequence ==
    /\ []((AtPrompt /\ total_teams >= 1) =>
            /\ draft_info.current_picker \in 1..total_teams
            /\ draft_info.total_picks_made % total_teams = 0 =>
                   draft_info.current_picker =
                       IF draft_info.current_round % 2 = 1 THEN 1 ELSE total_teams)
    /\ [][NewPick =>
            LET before == draft_info
                after  == output'.status
            IN  /\ after.total_picks_made = before.total_picks_made + 1
                /\ IF after.total_picks_made % total_teams = 0
                   THEN /\ after.current_round = before.current_round + 1
                        /\ after.current_picker = before.current_picker
                   ELSE /\ after.current_round = before.current_round
                        /\ after.current_picker =
                               IF before.current_round % 2 = 1
                               THEN before.current_picker + 1
                               ELSE before.current_picker - 1]_vars

\* twelve teams: the twelfth pick has been made by slot 12, which opens round 2
C29_Witness ==
    /\ pc = "prompt"
    /\ total_teams = 12
    /\ draft_info.status = "ok"
    /\ draft_info.current_round = 1
    /\ draft_info.current_picker = 12
    /\ output.op = "add_taken_player"
    /\ output.status.total_picks_made = 12
    /\ output.status.current_round = 2
    /\ output.status.current_picker = 12

\* the identifiers of the records of the loaded pool
PoolIdentifiers == {players_data[place[1]][place[2]].name : place \in PoolPlaces}

====
